---- MODULE Spec2Model ----
(***************************************************************************)
(* 0FluffRead: the page script of src/unnamed/part_002: the stored feed    *)
(* list and the settings dialog that edits it, loadFeed's retry loop,      *)
(* loadAllFeeds' concurrent aggregation, merge, sort and rendering; and,   *)
(* in their own sections, the scripts of src/unnamed/part_001 (URL input   *)
(* and load button) and of src/script.js (sequential loader, share         *)
(* button, message timeouts) over the same page elements.                  *)
(*                                                                         *)
(* The event loop is single-threaded: every action below is one run of     *)
(* JavaScript from an event (page load, a fetch settling, a timer firing,  *)
(* Promise.all resolving) up to the next await.                            *)
(***************************************************************************)
EXTENDS Integers, Sequences, FiniteSets, TLC

\* ------------------------------------------------------------------ bounds

\* Longest item array the proxy returns for one feed.
MaxItems == 2

\* The proxy requests of one loadFeed call are counted up to this number; the
\* loop of loadFeed itself has no cap for payloads it does not recognise.
MaxRequests == 4

\* Most edits of the stored list (calls of saveFeeds) in one visit of the page.
MaxSaves == 2

\* Most load cycles (calls of loadAllFeeds) in one visit of the page.
MaxLoads == 2

\* Most timeouts of showMessage that are pending at the same time.
MaxTimers == 2

\* ------------------------------------------------------- program constants

MAX_RETRIES == 3

\* setTimeout(..., 5000) in showMessage of src/script.js, in seconds
DISMISS == 5

Verge == "https://www.theverge.com/rss/index.xml"

Engadget == "https://www.engadget.com/rss.xml"

\* A string addFeed accepts (non-empty after trim) that is no absolute URL.
NotAUrl == "feeds.example.org/rss"

\* A feed URL that is not among the defaults.
NewFeed == "https://hnrss.org/frontpage"

DEFAULT_FEEDS == <<Verge, Engadget>>

\* new URL(u): whether the constructor accepts u (it throws TypeError otherwise).
IsAbsoluteUrl(u) == u \in {Verge, Engadget, NewFeed}

\* new URL(u).hostname
Hostname(u) ==
    CASE u = Verge -> "www.theverge.com"
      [] u = Engadget -> "www.engadget.com"
      [] u = NewFeed -> "hnrss.org"
      [] OTHER -> ""

\* ------------------------------------------------------------- proxy data

\* pubDate strings of the proxy's items: two that Date parses and one that it
\* does not (a missing pubDate parses the same way: new Date(undefined) is
\* an Invalid Date).
ValidDates == {"2024-05-01 09:00:00", "2024-05-02 09:00:00"}

PubDates == ValidDates \cup {"n/a"}

\* new Date(p): is the time value a number (not NaN)?
IsValidDate(p) == p \in ValidDates

\* new Date(p).getTime() for a valid p, in days since 2024-04-30 09:00.
TimeValue(p) ==
    CASE p = "2024-05-01 09:00:00" -> 1
      [] p = "2024-05-02 09:00:00" -> 2
      [] OTHER -> 0

\* feed.title values of the proxy: empty (absent) or a name.
Titles == {"", "Tech News"}

\* The value of item.feedTitle before loadFeed assigns it.
Undefined == "<undefined>"

\* An item of feed u at position n of the proxy's array; origin and n
\* identify it (its link), feedTitle is not set by the proxy.
Item(u, n, p) == [origin |-> u, n |-> n, pubDate |-> p, feedTitle |-> Undefined]

ItemSeqs(u) ==
    UNION {{[k \in 1..len |-> Item(u, k, f[k])] : f \in [1..len -> PubDates]} :
           len \in 0..MaxItems}

\* A parsed response body (response.json()).
Data(status, hasItems, items, hasFeed, title) ==
    [status |-> status, hasItems |-> hasItems, items |-> items,
     hasFeed |-> hasFeed, title |-> title]

\* The failure outcome of loadFeed.
null == Data("null", FALSE, <<>>, FALSE, "")

\* What one proxy request for feed u can come back with.
Responses(u) ==
    \* fetch rejects; response.ok is false; response.json() rejects
    {[kind |-> k, data |-> null] : k \in {"network", "http", "syntax"}}
    \cup
    \* status 'ok' with an items array and a feed object
    {[kind |-> "json", data |-> Data("ok", TRUE, its, TRUE, t)] :
        its \in ItemSeqs(u), t \in Titles}
    \cup
    \* status 'ok' with items but no feed object; status 'error';
    \* status 'ok' without items; any other status
    {[kind |-> "json", data |-> d] :
        d \in {Data("ok", TRUE, <<>>, FALSE, ""),
               Data("error", FALSE, <<>>, FALSE, ""),
               Data("ok", FALSE, <<>>, TRUE, "Tech News"),
               Data("pending", FALSE, <<>>, FALSE, "")}}

\* The strings that can be a feed URL of the model.
Urls == {Verge, Engadget, NotAUrl, NewFeed}

\* Responses, tabulated by URL.
ResponseTable == [u \in Urls |-> Responses(u)]

\* ------------------------------------------------------------------ state

VARIABLES
    storage,        \* localStorage[STORAGE_KEY]: absent, or the string stored
    defaultFeeds,   \* the array object DEFAULT_FEEDS
    page,           \* "loading" before DOMContentLoaded has run init, then "ready"
    settingsOpen,   \* settingsDialog is shown
    addFeedInput,   \* addFeedInput.value
    feedsList,      \* the URLs that feedsList shows, one removal button each
    loadingHidden,  \* loadingIndicator has the class 'hidden'
    feedContainer,  \* what feedContainer shows
    messageBox,     \* messageBox: text, colour class, class 'hidden'
    cycles,         \* the invocations of loadAllFeeds and their loadFeed calls
    saves,          \* how often localStorage.setItem has been called
    setItemThrows,  \* localStorage.setItem throws (quota exceeded, storage denied)
    loadCount,      \* how often loadAllFeeds has been called
    hideTimers,     \* the timeouts of showMessage (script.js) that are pending:
                    \* the seconds each has left, oldest first
    shownFor,       \* the seconds since the last showMessage, up to DISMISS
    loadButtonDisabled,  \* loadButton.disabled (part_001)
    uncaught        \* the handlers that have ended in an uncaught exception

vars == <<storage, defaultFeeds, page, settingsOpen, addFeedInput, feedsList,
          loadingHidden, feedContainer, messageBox, cycles, saves, setItemThrows,
          loadCount, hideTimers, shownFor, loadButtonDisabled, uncaught>>

\* Places for invocations of loadAllFeeds that are in flight at the same time.
Slots == {1, 2}

\* ---------------------------------------------------------------- storage

\* What localStorage.getItem(STORAGE_KEY) returns: null (no entry), or the
\* string stored, told apart by what JSON.parse makes of it: the empty string;
\* text that is no JSON; the JSON texts null, 7, "feeds" and {}; the JSON text
\* of an array (of the strings in list).
StorageKinds ==
    {"absent", "empty", "text", "null", "number", "string", "object", "array"}

Absent == [kind |-> "absent", list |-> <<>>]

Stored(list) == [kind |-> "array", list |-> list]

\* A stored string that is not the JSON text of an array.
Malformed(kind) == [kind |-> kind, list |-> <<>>]

\* A value getFeeds returns: an array (of the strings in list), or the null,
\* number, string or object that JSON.parse made of the stored text.
Value(kind, list) == [kind |-> kind, list |-> list]

\* getFeeds: stored ? JSON.parse(stored) : DEFAULT_FEEDS, and DEFAULT_FEEDS
\* when JSON.parse throws. null and '' are falsy; JSON.parse throws
\* SyntaxError for text that is no JSON and returns the value of any JSON text.
getFeeds ==
    IF storage.kind \in {"absent", "empty", "text"}
    THEN Value("array", defaultFeeds)
    ELSE Value(storage.kind, storage.list)

\* ------------------------------------------------------------- messageBox

\* A message text: its fixed words and what is put into them (the counts of
\* the success message, the URL prefix of the settings messages).
Text(words, feeds, articles, url) ==
    [text |-> words, feeds |-> feeds, articles |-> articles, url |-> url]

NoFeedsText == Text("No feeds configured. Open Settings to add a URL.", 0, 0, "")

\* `Successfully loaded ${k} feed(s) with ${n} total articles.`
LoadedText(k, n) ==
    Text("Successfully loaded k feed(s) with n total articles.", k, n, "")

FailedText ==
    Text("Failed to load any of the requested feeds after all retries. Open Settings to verify URLs.",
         0, 0, "")

NoText == Text("", 0, 0, "")

EmptyUrlText == Text("Feed URL cannot be empty.", 0, 0, "")

ExistsText == Text("Feed URL already exists.", 0, 0, "")

\* url.substring(0, 30)
Substring30(url) ==
    CASE url = Verge -> "https://www.theverge.com/rss/i"
      [] url = Engadget -> "https://www.engadget.com/rss.x"
      [] OTHER -> url

\* `Feed added: ${url.substring(0, 30)}...`
AddedText(url) == Text("Feed added: url...", 0, 0, Substring30(url))

\* `Feed removed: ${urlToRemove.substring(0, 30)}...`
RemovedText(url) == Text("Feed removed: url...", 0, 0, Substring30(url))

\* showMessage(message, type): the colour class by type, 'hidden' removed.
showMessage(message, type) ==
    [text |-> message,
     class |-> IF type = "error" THEN "red"
               ELSE IF type = "success" THEN "green" ELSE "yellow",
     hidden |-> FALSE]

\* ---------------------------------------------------------- feedContainer

\* feedContainer.innerHTML = ''
Blank == [view |-> "blank", count |-> 0, titles |-> <<>>, cards |-> <<>>]

\* f.title || 'Unknown Feed'
SourceTitle(title) == IF title # "" THEN title ELSE "Unknown Feed"

\* Mutant of ClearContainer: the assignment left out, the content stays.
ClearContainer_Keep == feedContainer

\* feedContainer.innerHTML = '' (in renderFeed and twice in loadAllFeeds)
ClearContainer == Blank

\* renderFeed(items, feedSources): the container is cleared; for no items its
\* content is set to the empty-state card; otherwise the summary (count,
\* titles of the sources) and one card per item are appended, in order.
renderFeed(items, feedSources) ==
    LET cleared == ClearContainer IN
    IF Len(items) = 0
    THEN [view |-> "empty-state", count |-> 0, titles |-> <<>>, cards |-> <<>>]
    ELSE [view |-> "articles", count |-> Len(items),
          titles |-> cleared.titles \o
                     [i \in 1..Len(feedSources) |-> SourceTitle(feedSources[i])],
          cards |-> cleared.cards \o items]

\* --------------------------------------------------------------- loadFeed

RECURSIVE Pow(_, _)
\* Math.pow(b, e) for a natural e
Pow(b, e) == IF e = 0 THEN 1 ELSE b * Pow(b, e - 1)

\* while (attempt < MAX_RETRIES)
LoopCondition(attempt) == attempt < MAX_RETRIES

\* Mutant of RetriesExhausted: gives up one failed attempt early.
RetriesExhausted_OneEarly(attempt) == attempt >= MAX_RETRIES - 1

\* if (attempt >= MAX_RETRIES) in the catch block
RetriesExhausted(attempt) == attempt >= MAX_RETRIES

\* Mutant of BackoffDelay: the exponent counts from 0 (1 s, 2 s).
BackoffDelay_FromOneSecond(attempt) == Pow(2, attempt - 1) * 1000

\* const delay = Math.pow(2, attempt) * 1000, in milliseconds
BackoffDelay(attempt) == Pow(2, attempt) * 1000

\* data.status === 'ok' && data.items
IsOkWithItems(data) == data.status = "ok" /\ data.hasItems

\* Whether the try block throws on response r for feed url: fetch or json()
\* rejecting, !response.ok, data.feed.title of a missing feed object,
\* new URL(rssUrl) of a string that is no URL (evaluated only when the title
\* is empty), or the payload's status 'error'.
Throws(url, r) ==
    \/ r.kind \in {"network", "http", "syntax"}
    \/ /\ r.kind = "json"
       /\ \/ /\ IsOkWithItems(r.data)
             /\ \/ ~r.data.hasFeed
                \/ r.data.title = "" /\ ~IsAbsoluteUrl(url)
          \/ ~IsOkWithItems(r.data) /\ r.data.status = "error"

\* Mutant of ResolveTitle: the fallback to the hostname left out.
ResolveTitle_TitleOnly(data, url) == data.title

\* const feedTitle = data.feed.title || new URL(rssUrl).hostname
ResolveTitle(data, url) == IF data.title # "" THEN data.title ELSE Hostname(url)

\* data.items.forEach(item => { item.feedTitle = feedTitle })
StampItems(data, url) ==
    [data EXCEPT !.items =
        [k \in 1..Len(data.items) |->
            [data.items[k] EXCEPT !.feedTitle = ResolveTitle(data, url)]]]

\* A loadFeed call: where it is ("fetching" at await fetch, "parsing" at await
\* response.json(), "backoff" at the timer, "returned"), its locals, and what
\* the model records of it: the requests it issued, counted up to MaxRequests
\* (MaxRequests stands for that many or more), and the delays it waited for.
Task(url, pc, attempt, requests, delays, result) ==
    [url |-> url, pc |-> pc, attempt |-> attempt, requests |-> requests,
     delays |-> delays, result |-> result]

\* The top of the while loop: issue the next request or fall out to the
\* final return null.
LoopTop(t) ==
    IF LoopCondition(t.attempt)
    THEN [t EXCEPT !.pc = "fetching",
                   !.requests = IF @ < MaxRequests THEN @ + 1 ELSE @]
    ELSE [t EXCEPT !.pc = "returned", !.result = null]

\* loadFeed(rssUrl) up to its first await.
CallLoadFeed(rssUrl) ==
    IF rssUrl = ""
    THEN Task(rssUrl, "returned", 0, 0, <<>>, null)
    ELSE LoopTop(Task(rssUrl, "running", 0, 0, <<>>, null))

\* The catch block.
Catch(t) ==
    LET attempt == t.attempt + 1 IN
    IF RetriesExhausted(attempt)
    THEN [t EXCEPT !.attempt = attempt, !.pc = "returned", !.result = null]
    ELSE [t EXCEPT !.attempt = attempt, !.pc = "backoff",
                   !.delays = Append(@, BackoffDelay(attempt))]

\* What await fetch(proxyUrl) comes back with: a rejection, a response whose
\* ok is false, a response whose ok is true.
Heads == {"network", "http", "ok"}

\* loadFeed from fetch settling with h to its next await or return: the catch
\* block, or await response.json().
OnHeaders(t, h) ==
    IF h \in {"network", "http"} THEN Catch(t) ELSE [t EXCEPT !.pc = "parsing"]

\* loadFeed from response.json() settling with r to its next await or return.
OnResponse(t, r) ==
    IF Throws(t.url, r) THEN Catch(t)
    ELSE IF IsOkWithItems(r.data)
    THEN [t EXCEPT !.pc = "returned", !.result = StampItems(r.data, t.url)]
    ELSE LoopTop(t)

\* loadFeed from the backoff timer firing to its next await or return.
OnTimer(t) == LoopTop(t)

\* ------------------------------------------------------------------- sort

\* The comparator (a, b) => new Date(b.pubDate) - new Date(a.pubDate), as
\* Array.prototype.sort reads it: the difference is NaN when either date is
\* invalid, and sort takes a NaN result as +0.
Compare(a, b) ==
    IF IsValidDate(a.pubDate) /\ IsValidDate(b.pubDate)
    THEN TimeValue(b.pubDate) - TimeValue(a.pubDate)
    ELSE 0

\* s with x put in at position k (1..Len(s)+1).
InsertAt(s, k, x) == SubSeq(s, 1, k - 1) \o <<x>> \o SubSeq(s, k, Len(s))

Reverse(s) == [k \in 1..Len(s) |-> s[Len(s) + 1 - k]]

RECURSIVE Scan(_, _, _)
\* Straight insertion: x moves left past every element that compares after it.
Scan(sorted, x, j) ==
    IF j = 0 \/ Compare(sorted[j], x) <= 0
    THEN InsertAt(sorted, j + 1, x)
    ELSE Scan(sorted, x, j - 1)

RECURSIVE StraightFrom(_, _, _)
StraightFrom(s, sorted, k) ==
    IF k > Len(s) THEN sorted
    ELSE StraightFrom(s, Scan(sorted, s[k], Len(sorted)), k + 1)

\* A stable straight insertion sort of s by Compare.
StraightInsertionSort(s) == StraightFrom(s, <<>>, 1)

RECURSIVE RunLength(_, _, _, _)
\* The length of the run that starts s: elements are taken while each compares
\* with its predecessor the way the second did with the first.
RunLength(s, descending, idx, len) ==
    IF idx > Len(s) THEN len
    ELSE LET order == Compare(s[idx], s[idx - 1]) IN
         IF (descending /\ order >= 0) \/ (~descending /\ order < 0)
         THEN len
         ELSE RunLength(s, descending, idx + 1, len + 1)

RECURSIVE Bisect(_, _, _, _)
\* The place of pivot in the sorted prefix a[left..right-1], by bisection.
Bisect(a, pivot, left, right) ==
    IF left >= right THEN left
    ELSE LET mid == left + ((right - left) \div 2) IN
         IF Compare(pivot, a[mid]) < 0
         THEN Bisect(a, pivot, left, mid)
         ELSE Bisect(a, pivot, mid + 1, right)

RECURSIVE BinaryFrom(_, _)
BinaryFrom(a, start) ==
    IF start > Len(a) THEN a
    ELSE LET pivot == a[start]
             prefix == SubSeq(a, 1, start - 1)
             place == Bisect(a, pivot, 1, start)
         IN BinaryFrom(InsertAt(prefix, place, pivot) \o SubSeq(a, start + 1, Len(a)),
                       start + 1)

\* The sort of an array shorter than 64 by a run-detecting binary insertion
\* sort: the leading run is found (and reversed if strictly descending), the
\* rest is put in by bisection.
BinaryInsertionSort(s) ==
    IF Len(s) < 2 THEN s
    ELSE LET descending == Compare(s[2], s[1]) < 0
             run == RunLength(s, descending, 3, 2)
             made == IF descending
                     THEN Reverse(SubSeq(s, 1, run)) \o SubSeq(s, run + 1, Len(s))
                     ELSE s
         IN BinaryFrom(made, run + 1)

\* allItems.sort(comparator): the order the engine leaves. With every date
\* valid the comparator is consistent and both sorts give the one stable
\* order; with an invalid date it is not, and the order is the engine's.
SortOutcomes(items) == {StraightInsertionSort(items), BinaryInsertionSort(items)}

\* ----------------------------------------------------------- loadAllFeeds

\* An invocation of loadAllFeeds: "idle" (none in this place), "waiting" (at
\* await Promise.all) or "done" (returned); the URLs it read and its loadFeed
\* calls, in the order of the URLs.
Cycle(pc, urls, tasks) == [pc |-> pc, urls |-> urls, tasks |-> tasks]

Idle == Cycle("idle", <<>>, <<>>)

\* Mutant of NoFeeds: only !feedUrls is tested, and an empty array is truthy.
NoFeeds_TruthyOnly(feedUrls) == feedUrls.kind = "null"

\* if (!feedUrls || feedUrls.length === 0): null is falsy; an array has its
\* length; 7 and {} have no length, and that of "feeds" is 5.
NoFeeds(feedUrls) ==
    \/ feedUrls.kind = "null"
    \/ feedUrls.kind = "array" /\ Len(feedUrls.list) = 0

\* feedUrls.map is a function: only arrays have it (calling it on a number, a
\* string or an object throws TypeError).
HasMap(feedUrls) == feedUrls.kind = "array"

\* Mutant of StartFetches: the feeds are fetched one after the other, so
\* only the first call has started when loadAllFeeds first waits.
StartFetches_OneAtATime(feedUrls) ==
    [i \in 1..Len(feedUrls) |->
        IF i = 1 THEN CallLoadFeed(feedUrls[i])
        ELSE Task(feedUrls[i], "queued", 0, 0, <<>>, null)]

\* feedUrls.map(url => loadFeed(url)): every call runs to its first await, one
\* after the other, before loadAllFeeds goes on.
StartFetches(feedUrls) == [i \in 1..Len(feedUrls) |-> CallLoadFeed(feedUrls[i])]

\* Mutant of AllSettled: Promise.race for Promise.all.
AllSettled_First(tasks) == \E i \in 1..Len(tasks) : tasks[i].pc = "returned"

\* Promise.all(fetchPromises) has resolved: every promise is fulfilled. No
\* loadFeed call of the model rejects: the only statement of loadFeed outside
\* its try block that can throw is encodeURIComponent(rssUrl), and it throws
\* only for a string with a lone surrogate, which Urls does not hold.
AllSettled(tasks) == \A i \in 1..Len(tasks) : tasks[i].pc = "returned"

\* Mutant of SuccessfulLoads: the results are taken last URL first.
SuccessfulLoads_Reversed(tasks) ==
    LET results == [i \in 1..Len(tasks) |-> tasks[Len(tasks) + 1 - i].result]
    IN SelectSeq(results, LAMBDA r : r # null)

\* results.filter(result => result !== null), results in the order of the URLs
SuccessfulLoads(tasks) ==
    LET results == [i \in 1..Len(tasks) |-> tasks[i].result]
    IN SelectSeq(results, LAMBDA r : r # null)

RECURSIVE ConcatItems(_, _)
\* successfulLoads.forEach(data => { allItems = allItems.concat(data.items) })
ConcatItems(loads, k) ==
    IF k > Len(loads) THEN <<>>
    ELSE loads[k].items \o ConcatItems(loads, k + 1)

\* Mutant of AllItems: allItems = data.items, the concatenation forgotten (the
\* last successful feed's items replace the others').
AllItems_LastFeedOnly(loads) ==
    IF Len(loads) = 0 THEN <<>> ELSE loads[Len(loads)].items

AllItems(loads) == ConcatItems(loads, 1)

\* successfulFeeds.push(data.feed): the feed objects, here their titles
SuccessfulFeeds(loads) == [k \in 1..Len(loads) |-> loads[k].title]

\* Mutant of AnyLoaded: >= for >.
AnyLoaded_Always(loads) == Len(loads) >= 0

\* if (successfulLoads.length > 0)
AnyLoaded(loads) == Len(loads) > 0

\* Mutant of SuccessMessage: the two counts swapped.
SuccessMessage_Swapped(loads, items) == LoadedText(Len(items), Len(loads))

\* The message of the success branch.
SuccessMessage(loads, items) == LoadedText(Len(loads), Len(items))

\* The place a new invocation takes: the first that holds none in flight.
FreeSlots == {c \in Slots : cycles[c].pc # "waiting"}

FreeSlot == CHOOSE c \in FreeSlots : \A d \in FreeSlots : c <= d

\* loadAllFeeds() from its call to its return (no feeds), to its await, or
\* to the TypeError of feedUrls.map, which rejects the promise it returned
\* (no caller handles the rejection).
loadAllFeeds(c) ==
    LET feedUrls == getFeeds IN
    /\ loadCount' = loadCount + 1
    /\ IF NoFeeds(feedUrls)
       THEN /\ messageBox' = showMessage(NoFeedsText, "warning")
            /\ feedContainer' = ClearContainer
            /\ cycles' = [cycles EXCEPT ![c] = Cycle("done", <<>>, <<>>)]
            /\ UNCHANGED <<settingsOpen, loadingHidden, uncaught>>
       ELSE /\ settingsOpen' = FALSE
            /\ loadingHidden' = FALSE
            /\ feedContainer' = ClearContainer
            /\ messageBox' = [messageBox EXCEPT !.hidden = TRUE]
            /\ IF HasMap(feedUrls)
               THEN /\ cycles' = [cycles EXCEPT
                          ![c] = Cycle("waiting", feedUrls.list, StartFetches(feedUrls.list))]
                    /\ UNCHANGED uncaught
               ELSE /\ cycles' = [cycles EXCEPT ![c] = Cycle("threw", <<>>, <<>>)]
                    /\ uncaught' = uncaught \cup {"loadAllFeeds"}

\* ---------------------------------------------------------------- actions

\* What an action of the load cycle leaves alone: the store and the settings.
storeVars == <<storage, defaultFeeds, saves, setItemThrows>>

\* The timeouts that hide the message: part_002 sets none.
timerVars == <<hideTimers, shownFor>>

settingsVars == <<addFeedInput, feedsList>>

\* DOMContentLoaded: init() registers the listeners and calls loadAllFeeds().
init ==
    /\ page = "loading"
    /\ page' = "ready"
    /\ loadAllFeeds(FreeSlot)
    /\ UNCHANGED <<storeVars, timerVars, loadButtonDisabled, settingsVars>>

\* await fetch(proxyUrl) of loadFeed call i of invocation c settles with h.
FetchSettles(c, i, h) ==
    /\ cycles[c].tasks[i].pc = "fetching"
    /\ h \in Heads
    /\ cycles' = [cycles EXCEPT ![c].tasks[i] = OnHeaders(@, h)]
    /\ UNCHANGED <<storeVars, timerVars, loadButtonDisabled, settingsVars, page, settingsOpen, loadingHidden,
                   feedContainer, messageBox, loadCount, uncaught>>

\* await response.json() of loadFeed call i of invocation c settles with r.
\* A payload that loadFeed neither accepts nor rejects sends it round the
\* loop at once, with a new request.
BodySettles(c, i, r) ==
    /\ cycles[c].tasks[i].pc = "parsing"
    /\ r \in ResponseTable[cycles[c].tasks[i].url]
    /\ r.kind \in {"syntax", "json"}
    /\ cycles' = [cycles EXCEPT ![c].tasks[i] = OnResponse(@, r)]
    /\ UNCHANGED <<storeVars, timerVars, loadButtonDisabled, settingsVars, page, settingsOpen, loadingHidden,
                   feedContainer, messageBox, loadCount, uncaught>>

\* The backoff timer of loadFeed call i of invocation c fires.
TimerFires(c, i) ==
    /\ cycles[c].tasks[i].pc = "backoff"
    /\ cycles' = [cycles EXCEPT ![c].tasks[i] = OnTimer(@)]
    /\ UNCHANGED <<storeVars, timerVars, loadButtonDisabled, settingsVars, page, settingsOpen, loadingHidden,
                   feedContainer, messageBox, loadCount, uncaught>>

\* loadAllFeeds after await Promise.all: filter, merge, sort, render, message.
FeedsSettled(c) ==
    /\ cycles[c].pc = "waiting"
    /\ AllSettled(cycles[c].tasks)
    /\ LET successfulLoads == SuccessfulLoads(cycles[c].tasks)
           successfulFeeds == SuccessfulFeeds(successfulLoads)
       IN \E allItems \in SortOutcomes(AllItems(successfulLoads)) :
            /\ loadingHidden' = TRUE
            /\ IF AnyLoaded(successfulLoads)
               THEN /\ feedContainer' = renderFeed(allItems, successfulFeeds)
                    /\ messageBox' =
                         showMessage(SuccessMessage(successfulLoads, allItems), "success")
               ELSE /\ feedContainer' = renderFeed(<<>>, <<>>)
                    /\ messageBox' = showMessage(FailedText, "error")
    /\ cycles' = [cycles EXCEPT ![c].pc = "done"]
    /\ UNCHANGED <<storeVars, timerVars, loadButtonDisabled, settingsVars, page, settingsOpen, loadCount, uncaught>>

\* --------------------------------------------------------------- settings

\* A value of the input field: its characters, a URL taken as one of them.
Space == " "

RECURSIVE TrimStart(_)
TrimStart(s) == IF s # <<>> /\ Head(s) = Space THEN TrimStart(Tail(s)) ELSE s

RECURSIVE TrimEnd(_)
TrimEnd(s) ==
    IF s # <<>> /\ s[Len(s)] = Space THEN TrimEnd(SubSeq(s, 1, Len(s) - 1)) ELSE s

\* A trim that leaves the value as typed.
Trim_AsTyped(s) == s

\* String.prototype.trim
Trim(s) == TrimEnd(TrimStart(s))

RECURSIVE StringOf(_)
\* The string that the characters of a value make.
StringOf(s) == IF s = <<>> THEN "" ELSE Head(s) \o StringOf(Tail(s))

\* What the user types into addFeedInput.
InputValues ==
    {<<Space>>, <<Space, Verge, Space>>, <<NewFeed, Space>>, <<Engadget>>}

\* currentFeeds.includes(url), for an array
Includes(list, url) == \E k \in 1..Len(list) : list[k] = url

\* A splice that always takes the first entry.
Splice_First(list, index) == IF Len(list) = 0 THEN list ELSE Tail(list)

\* currentFeeds.splice(index, 1), index counted from 1 here
Splice(list, index) ==
    IF index \in 1..Len(list)
    THEN SubSeq(list, 1, index - 1) \o SubSeq(list, index + 1, Len(list))
    ELSE list

\* The array getFeeds returned is DEFAULT_FEEDS itself, not a parsed copy.
ReadsDefaults == storage.kind \in {"absent", "empty", "text"}

\* saveFeeds(feeds) after feeds was changed in place to list: DEFAULT_FEEDS,
\* when feeds is that array, now holds list; localStorage holds its JSON
\* text, unless setItem threw, which saveFeeds only logs.
saveFeeds(list) ==
    /\ defaultFeeds' = IF ReadsDefaults THEN list ELSE defaultFeeds
    /\ storage' = IF setItemThrows THEN storage ELSE Stored(list)
    /\ saves' = saves + 1
    /\ UNCHANGED setItemThrows

\* What getFeeds returns after saveFeeds(list): the text now stored, or after
\* a failed write the array that was changed or the text stored before.
Reread(list) == IF setItemThrows /\ ~ReadsDefaults THEN storage.list ELSE list

\* The settings button: renderFeedsList(), then settingsDialog.showModal().
\* renderFeedsList clears the list and throws TypeError on a value that is
\* no array (null.length, or forEach of a number, a string or an object), and
\* the dialog is not shown. The modal dialog makes the button inert.
openSettings ==
    /\ page = "ready"
    /\ ~settingsOpen
    /\ LET currentFeeds == getFeeds IN
       IF currentFeeds.kind = "array"
       THEN /\ feedsList' = currentFeeds.list
            /\ settingsOpen' = TRUE
            /\ UNCHANGED uncaught
       ELSE /\ feedsList' = <<>>
            /\ uncaught' = uncaught \cup {"renderFeedsList"}
            /\ UNCHANGED settingsOpen
    /\ UNCHANGED <<storeVars, timerVars, loadButtonDisabled, page, addFeedInput, loadingHidden, feedContainer,
                   messageBox, cycles, loadCount>>

\* The close button of the dialog.
closeSettings ==
    /\ settingsOpen
    /\ settingsOpen' = FALSE
    /\ UNCHANGED <<storeVars, timerVars, loadButtonDisabled, settingsVars, page, loadingHidden, feedContainer,
                   messageBox, cycles, loadCount, uncaught>>

\* The user types value into the input field of the dialog.
typeInput(value) ==
    /\ settingsOpen
    /\ addFeedInput # value
    /\ addFeedInput' = value
    /\ UNCHANGED <<storeVars, timerVars, loadButtonDisabled, feedsList, page, settingsOpen, loadingHidden,
                   feedContainer, messageBox, cycles, loadCount, uncaught>>

\* Mutant of IsDuplicate: the check for duplicates left out.
IsDuplicate_Never(list, url) == FALSE

\* if (currentFeeds.includes(url))
IsDuplicate(list, url) == Includes(list, url)

\* addFeed: a click on the add button or Enter in the input field.
addFeed ==
    /\ settingsOpen
    /\ LET url == StringOf(Trim(addFeedInput))
           currentFeeds == getFeeds
       IN IF url = ""
          THEN /\ messageBox' = showMessage(EmptyUrlText, "warning")
               /\ UNCHANGED <<storeVars, settingsVars, uncaught>>
          ELSE IF currentFeeds.kind # "array"
          \* includes or push is no function of the value: TypeError
          THEN /\ uncaught' = uncaught \cup {"addFeed"}
               /\ UNCHANGED <<storeVars, settingsVars, messageBox>>
          ELSE IF IsDuplicate(currentFeeds.list, url)
          THEN /\ messageBox' = showMessage(ExistsText, "warning")
               /\ addFeedInput' = <<>>
               /\ UNCHANGED <<storeVars, feedsList, uncaught>>
          ELSE /\ saves < MaxSaves
               /\ saveFeeds(Append(currentFeeds.list, url))
               /\ feedsList' = Reread(Append(currentFeeds.list, url))
               /\ addFeedInput' = <<>>
               /\ messageBox' = showMessage(AddedText(url), "success")
               /\ UNCHANGED uncaught
    /\ UNCHANGED <<timerVars, loadButtonDisabled, page, settingsOpen, loadingHidden, feedContainer, cycles, loadCount>>

\* removeFeed(index): a click on the removal button of entry index of the
\* list shown (index counted from 1 here).
removeFeed(index) ==
    /\ settingsOpen
    /\ index \in 1..Len(feedsList)
    /\ LET currentFeeds == getFeeds IN
       IF currentFeeds.kind # "array"
       \* currentFeeds[index] of null, or splice of a value without it: TypeError
       THEN /\ uncaught' = uncaught \cup {"removeFeed"}
            /\ UNCHANGED <<storeVars, feedsList, messageBox>>
       ELSE /\ saves < MaxSaves
            /\ saveFeeds(Splice(currentFeeds.list, index))
            /\ feedsList' = Reread(Splice(currentFeeds.list, index))
            /\ IF index <= Len(currentFeeds.list)
               THEN /\ messageBox' =
                         showMessage(RemovedText(currentFeeds.list[index]), "success")
                    /\ UNCHANGED uncaught
               \* urlToRemove is undefined, and substring of it a TypeError
               ELSE /\ uncaught' = uncaught \cup {"removeFeed"}
                    /\ UNCHANGED messageBox
    /\ UNCHANGED <<timerVars, loadButtonDisabled, page, settingsOpen, addFeedInput, loadingHidden, feedContainer,
                   cycles, loadCount>>

\* The load button of the dialog: its click listener is loadAllFeeds.
clickLoad ==
    /\ page = "ready"
    /\ settingsOpen
    /\ loadCount < MaxLoads
    /\ FreeSlots # {}
    /\ loadAllFeeds(FreeSlot)
    /\ UNCHANGED <<storeVars, timerVars, loadButtonDisabled, settingsVars, page>>

\* --------------------------------------------------------- specifications

\* The URL lists found in storage when the page loads: written by addFeed and
\* removeFeed in earlier visits, so without blanks and without duplicates.
StoredLists ==
    {<<>>, <<Verge>>, <<NotAUrl>>, <<Engadget, Verge>>, <<Verge, NotAUrl>>}

\* The page as the browser has built it, before DOMContentLoaded. The markup
\* is not part of the sources: the indicator and the message box start hidden
\* or not.
\* The elements of the page and the script's own state when the script has
\* run and DOMContentLoaded has not.
InitElements ==
    /\ defaultFeeds = DEFAULT_FEEDS
    /\ page = "loading"
    /\ settingsOpen = FALSE
    /\ addFeedInput = <<>>
    /\ feedsList = <<>>
    /\ saves = 0
    /\ loadCount = 0
    /\ uncaught = {}
    /\ loadingHidden \in BOOLEAN
    /\ feedContainer = Blank
    /\ messageBox \in {[text |-> NoText, class |-> "", hidden |-> h] : h \in BOOLEAN}
    /\ cycles = [c \in Slots |-> Idle]
    /\ hideTimers = <<>>
    /\ shownFor = DISMISS
    /\ loadButtonDisabled = FALSE

\* A page whose storage takes writes.
InitPage ==
    /\ InitElements
    /\ setItemThrows = FALSE

Init ==
    /\ storage \in {Absent} \cup {Stored(l) : l \in StoredLists}
    /\ InitPage

\* The responses loadFeed takes as a failed attempt or as success.
Recognised(u) ==
    {r \in Responses(u) : Throws(u, r) \/ IsOkWithItems(r.data)}

RecognisedTable == [u \in Urls |-> Recognised(u)]

Next ==
    \/ init
    \/ \E c \in Slots : \E i \in 1..Len(cycles[c].tasks) :
         \E h \in Heads : FetchSettles(c, i, h)
    \/ \E c \in Slots : \E i \in 1..Len(cycles[c].tasks) :
         \E r \in RecognisedTable[cycles[c].tasks[i].url] : BodySettles(c, i, r)
    \/ \E c \in Slots : \E i \in 1..Len(cycles[c].tasks) : TimerFires(c, i)
    \/ \E c \in Slots : FeedsSettled(c)

\* One page load, the automatic load cycle from DOMContentLoaded to its end,
\* over every stored list, with a proxy that answers each request with a
\* failure or with an 'ok' payload that has items.
Spec == Init /\ [][Next]_vars

InitFetch ==
    /\ storage \in {Stored(<<Verge>>), Stored(<<NotAUrl>>)}
    /\ InitPage

NextFetch ==
    \/ init
    \/ \E c \in Slots : \E i \in 1..Len(cycles[c].tasks) :
         \E h \in Heads : FetchSettles(c, i, h)
    \/ \E c \in Slots : \E i \in 1..Len(cycles[c].tasks) :
         \E r \in ResponseTable[cycles[c].tasks[i].url] : BodySettles(c, i, r)
    \/ \E c \in Slots : \E i \in 1..Len(cycles[c].tasks) : TimerFires(c, i)
    \/ \E c \in Slots : FeedsSettled(c)

\* One page load with a single stored feed, with a proxy that answers with
\* anything at all, payloads loadFeed does not recognise included.
SpecFetch == InitFetch /\ [][NextFetch]_vars

\* A proxy that answers a request in one of two ways only: with a body that is
\* no JSON, or with one article under the title 'Tech News'.
FewResponses(u) ==
    {[kind |-> "syntax", data |-> null],
     [kind |-> "json",
      data |-> Data("ok", TRUE, <<Item(u, 1, "2024-05-01 09:00:00")>>, TRUE, "Tech News")]}

FewTable == [u \in Urls |-> FewResponses(u)]

InitSettings ==
    /\ storage \in {Absent, Stored(<<Verge>>)}
    /\ InitPage

NextSettings ==
    \/ init
    \/ \E c \in Slots : \E i \in 1..Len(cycles[c].tasks) :
         \E h \in Heads : FetchSettles(c, i, h)
    \/ \E c \in Slots : \E i \in 1..Len(cycles[c].tasks) :
         \E r \in FewTable[cycles[c].tasks[i].url] : BodySettles(c, i, r)
    \/ \E c \in Slots : \E i \in 1..Len(cycles[c].tasks) : TimerFires(c, i)
    \/ \E c \in Slots : FeedsSettled(c)
    \/ openSettings
    \/ closeSettings
    \/ \E value \in InputValues : typeInput(value)
    \/ addFeed
    \/ \E index \in 1..Len(feedsList) : removeFeed(index)

\* One page load and the settings dialog: while the automatic load cycle runs
\* and after it, the user opens and closes the dialog, types, adds and removes
\* feeds.
SpecSettings == InitSettings /\ [][NextSettings]_vars

\* Nothing usable is stored, and the storage takes no writes.
InitQuota ==
    /\ storage \in {Absent, Malformed("text")}
    /\ InitElements
    /\ setItemThrows = TRUE

\* SpecSettings in a browser whose storage is full or denied.
SpecQuota == InitQuota /\ [][NextSettings]_vars

\* Whatever the storage key can hold when the page loads.
InitStorage ==
    /\ storage \in {Absent} \cup {Malformed(k) : k \in StorageKinds \ {"absent", "array"}}
                        \cup {Stored(l) : l \in StoredLists}
    /\ InitPage

NextStorage ==
    \/ init
    \/ \E c \in Slots : \E i \in 1..Len(cycles[c].tasks) :
         \E h \in Heads : FetchSettles(c, i, h)
    \/ \E c \in Slots : \E i \in 1..Len(cycles[c].tasks) :
         \E r \in FewTable[cycles[c].tasks[i].url] : BodySettles(c, i, r)
    \/ \E c \in Slots : \E i \in 1..Len(cycles[c].tasks) : TimerFires(c, i)
    \/ \E c \in Slots : FeedsSettled(c)

\* One page load over every content of the storage key, text that is no JSON
\* and JSON text that is no array included.
SpecStorage == InitStorage /\ [][NextStorage]_vars

\* A proxy that answers with a body that is no JSON, with one article under
\* the title 'Tech News', with no article, or with two articles and no title.
ReloadResponses(u) ==
    FewResponses(u) \cup
    {[kind |-> "json", data |-> Data("ok", TRUE, <<>>, TRUE, "Tech News")],
     [kind |-> "json",
      data |-> Data("ok", TRUE, <<Item(u, 1, "2024-05-02 09:00:00"),
                                  Item(u, 2, "2024-05-01 09:00:00")>>, TRUE, "")]}

ReloadTable == [u \in Urls |-> ReloadResponses(u)]

\* A click on the load button when no load cycle is in flight.
reload ==
    /\ \A c \in Slots : cycles[c].pc # "waiting"
    /\ clickLoad

InitReload ==
    /\ storage \in {Stored(<<Verge>>), Stored(<<Engadget, Verge>>)}
    /\ InitPage

NextReload ==
    \/ init
    \/ \E c \in Slots : \E i \in 1..Len(cycles[c].tasks) :
         \E h \in Heads : FetchSettles(c, i, h)
    \/ \E c \in Slots : \E i \in 1..Len(cycles[c].tasks) :
         \E r \in ReloadTable[cycles[c].tasks[i].url] : BodySettles(c, i, r)
    \/ \E c \in Slots : \E i \in 1..Len(cycles[c].tasks) : TimerFires(c, i)
    \/ \E c \in Slots : FeedsSettled(c)
    \/ openSettings
    \/ \E index \in 1..Len(feedsList) : removeFeed(index)
    \/ reload

\* Load cycles one after the other: the automatic one, then reloads from the
\* dialog, each started when the one before has finished; the user removes
\* feeds in between.
SpecReload == InitReload /\ [][NextReload]_vars

NextOverlap ==
    \/ init
    \/ \E c \in Slots : \E i \in 1..Len(cycles[c].tasks) :
         \E h \in Heads : FetchSettles(c, i, h)
    \/ \E c \in Slots : \E i \in 1..Len(cycles[c].tasks) :
         \E r \in FewTable[cycles[c].tasks[i].url] : BodySettles(c, i, r)
    \/ \E c \in Slots : \E i \in 1..Len(cycles[c].tasks) : TimerFires(c, i)
    \/ \E c \in Slots : FeedsSettled(c)
    \/ openSettings
    \/ \E index \in 1..Len(feedsList) : removeFeed(index)
    \/ clickLoad

\* Load cycles that overlap: the user opens the dialog, removes feeds or not,
\* and clicks the load button, while the automatic load cycle is still in
\* flight or after it.
SpecOverlap == InitReload /\ [][NextOverlap]_vars

\* Every request settles and every timer fires: a request in flight gets its
\* headers, a body being read settles, a running timer fires, and the
\* continuations of settled promises run (Promise.all, DOMContentLoaded).
\* What the proxy answers stays open.
FairFetch ==
    /\ WF_vars(init)
    /\ WF_vars(\E c \in Slots : \E i \in 1..Len(cycles[c].tasks) :
                 \E h \in Heads : FetchSettles(c, i, h))
    /\ WF_vars(\E c \in Slots : \E i \in 1..Len(cycles[c].tasks) :
                 \E r \in ResponseTable[cycles[c].tasks[i].url] : BodySettles(c, i, r))
    /\ WF_vars(\E c \in Slots : \E i \in 1..Len(cycles[c].tasks) : TimerFires(c, i))
    /\ WF_vars(\E c \in Slots : FeedsSettled(c))

\* SpecFetch with requests that settle and timers that fire.
SpecLive == InitFetch /\ [][NextFetch]_vars /\ FairFetch

\* ================================================== src/unnamed/part_001
\* The script of part_001 is the page before the settings dialog: the URLs
\* are typed into an input field, separated by commas, and a load button
\* starts a load cycle. Its loadFeed and renderFeed are those of part_002,
\* line for line; its loadAllFeeds takes the URLs as its argument and
\* disables the load button while it is at work.

\* What the split, trim and filter of the input value give (line 212, and
\* line 9 for the value the page starts with).
InputLists == {<<>>, <<Verge>>, <<Verge, Engadget>>}

part1_NoUrlText == Text("I need at least one valid URL, Jacob.", 0, 0, "")

part1_FailedText == Text("Failed to load any of the requested feeds", 0, 0, "")

\* The load button while a load cycle is at work, left enabled.
DisabledWhileLoading_Never == FALSE

\* loadButton.disabled = true
DisabledWhileLoading == TRUE

\* loadAllFeeds(feedUrls) of part_001 from its call to its return (no URL)
\* or to its await.
part1_loadAllFeeds(c, feedUrls) ==
    /\ loadCount' = loadCount + 1
    /\ IF Len(feedUrls) = 0
       THEN /\ messageBox' = showMessage(part1_NoUrlText, "error")
            /\ cycles' = [cycles EXCEPT ![c] = Cycle("done", <<>>, <<>>)]
            /\ UNCHANGED <<loadButtonDisabled, loadingHidden, feedContainer>>
       ELSE /\ loadButtonDisabled' = DisabledWhileLoading
            /\ loadingHidden' = FALSE
            /\ feedContainer' = ClearContainer
            /\ messageBox' = [messageBox EXCEPT !.hidden = TRUE]
            /\ cycles' = [cycles EXCEPT
                  ![c] = Cycle("waiting", feedUrls, StartFetches(feedUrls))]

\* DOMContentLoaded: init() registers the listener of the load button and
\* calls loadAllFeeds(DEFAULT_FEEDS), the URLs the input field starts with.
part1_init(feedUrls) ==
    /\ page = "loading"
    /\ page' = "ready"
    /\ part1_loadAllFeeds(FreeSlot, feedUrls)
    /\ UNCHANGED <<storeVars, timerVars, settingsVars, settingsOpen, uncaught>>

\* A click on the load button, with urls in the input field: a disabled
\* button gets no click event.
part1_clickLoad(urls) ==
    /\ page = "ready"
    /\ ~loadButtonDisabled
    /\ loadCount < MaxLoads
    /\ FreeSlots # {}
    /\ part1_loadAllFeeds(FreeSlot, urls)
    /\ UNCHANGED <<storeVars, timerVars, settingsVars, page, settingsOpen, uncaught>>

\* loadAllFeeds of part_001 after await Promise.all: merge, sort, the button
\* enabled, the indicator hidden, render, message.
part1_FeedsSettled(c) ==
    /\ cycles[c].pc = "waiting"
    /\ AllSettled(cycles[c].tasks)
    /\ LET successfulLoads == SuccessfulLoads(cycles[c].tasks)
           successfulFeeds == SuccessfulFeeds(successfulLoads)
       IN \E allItems \in SortOutcomes(AllItems(successfulLoads)) :
            /\ loadButtonDisabled' = FALSE
            /\ loadingHidden' = TRUE
            /\ IF AnyLoaded(successfulLoads)
               THEN /\ feedContainer' = renderFeed(allItems, successfulFeeds)
                    /\ messageBox' =
                         showMessage(SuccessMessage(successfulLoads, allItems), "success")
               ELSE /\ feedContainer' = renderFeed(<<>>, <<>>)
                    /\ messageBox' = showMessage(part1_FailedText, "error")
    /\ cycles' = [cycles EXCEPT ![c].pc = "done"]
    /\ UNCHANGED <<storeVars, timerVars, settingsVars, page, settingsOpen, loadCount,
                   uncaught>>

InitPart1 ==
    /\ storage = Absent
    /\ InitPage

NextPart1 ==
    \/ \E urls \in InputLists : part1_init(urls)
    \/ \E c \in Slots : \E i \in 1..Len(cycles[c].tasks) :
         \E h \in Heads : FetchSettles(c, i, h)
    \/ \E c \in Slots : \E i \in 1..Len(cycles[c].tasks) :
         \E r \in FewTable[cycles[c].tasks[i].url] : BodySettles(c, i, r)
    \/ \E c \in Slots : \E i \in 1..Len(cycles[c].tasks) : TimerFires(c, i)
    \/ \E c \in Slots : part1_FeedsSettled(c)
    \/ \E urls \in InputLists : part1_clickLoad(urls)

\* The page under part_001: the automatic load cycle and the clicks on the
\* load button, with whatever the input field holds.
SpecPart1 == InitPart1 /\ [][NextPart1]_vars

\* ========================================================== src/script.js
\* The script of src/script.js is another build of the page, over the same
\* elements and the same storage key: its getFeeds has no try/catch, its
\* fetchFeedWithRetry returns whatever JSON the proxy sends and rethrows the
\* last failure, and its loadAllFeeds awaits the feeds one after the other.

\* fetchFeedWithRetry(url, retries = 3, backoff = 1000)
retries == 3

backoff == 1000

\* getFeeds of script.js: stored ? JSON.parse(stored) : DEFAULT_FEEDS, and the
\* SyntaxError of JSON.parse goes to the caller. (The storage of this script
\* holds nothing, the empty string, text that is no JSON, or an array.)
script_getFeeds ==
    CASE storage.kind \in {"absent", "empty"} -> Value("array", defaultFeeds)
      [] storage.kind = "text" -> Value("throws", <<>>)
      [] storage.kind = "array" -> Value("array", storage.list)

\* if (i === retries - 1) throw err
IsLastTry(i) == i = retries - 1

\* backoff * Math.pow(2, i), in milliseconds
RetryDelay(i) == backoff * Pow(2, i)

\* for (...; i < retries; ...): the next request, or the end of the loop and of
\* the function, which then returns undefined. A call is a Task whose
\* attempt is the loop index i; "threw" is the rethrown error.
script_LoopTop(t) ==
    IF t.attempt < retries
    THEN [t EXCEPT !.pc = "fetching",
                   !.requests = IF @ < MaxRequests THEN @ + 1 ELSE @]
    ELSE [t EXCEPT !.pc = "returned", !.result = null]

\* fetchFeedWithRetry(url) up to its first await.
fetchFeedWithRetry(url) == script_LoopTop(Task(url, "running", 0, 0, <<>>, null))

\* The catch block of fetchFeedWithRetry.
script_Catch(t) ==
    IF IsLastTry(t.attempt)
    THEN [t EXCEPT !.pc = "threw"]
    ELSE [t EXCEPT !.pc = "backoff", !.delays = Append(@, RetryDelay(t.attempt))]

\* From fetch settling with h to the next await, return or throw.
script_OnHeaders(t, h) ==
    IF h \in {"network", "http"} THEN script_Catch(t) ELSE [t EXCEPT !.pc = "parsing"]

\* From response.json() settling with r: return await response.json().
script_OnResponse(t, r) ==
    IF r.kind = "syntax" THEN script_Catch(t)
    ELSE [t EXCEPT !.pc = "returned", !.result = r.data]

\* From the timer firing: i++ and the loop condition.
script_OnTimer(t) == script_LoopTop([t EXCEPT !.attempt = @ + 1])

\* A call of fetchFeedWithRetry has come to its end.
HasEnded(t) == t.pc \in {"returned", "threw"}

\* for (const url of urls) { ... await fetchFeedWithRetry(url) ... }: the
\* calls of one invocation, of which only the first has been made.
script_StartFetches(urls) ==
    [k \in 1..Len(urls) |->
        IF k = 1 THEN fetchFeedWithRetry(urls[k])
        ELSE Task(urls[k], "queued", 0, 0, <<>>, null)]

\* Call i has moved to t: when it has ended, the loop goes on to the next URL
\* and calls fetchFeedWithRetry for it.
script_NextFetch(tasks, i, t) ==
    [k \in 1..Len(tasks) |->
        IF k = i THEN t
        ELSE IF k = i + 1 /\ HasEnded(t) THEN fetchFeedWithRetry(tasks[k].url)
        ELSE tasks[k]]

\* if (data.status === 'ok') allItems = [...allItems, ...data.items], for
\* every call: the spread of items that are missing throws TypeError, which
\* the catch block of the loop logs, as it does the error of a call that
\* threw.
script_AllItems(tasks) ==
    LET results == [k \in 1..Len(tasks) |-> tasks[k].result]
    IN ConcatItems(SelectSeq(results, LAMBDA d : d.status = "ok" /\ d.hasItems), 1)

\* renderFeed(items) of script.js: the container is cleared; a note for no
\* items, otherwise one card per item.
script_renderFeed(items) ==
    LET cleared == ClearContainer IN
    IF Len(items) = 0
    THEN [view |-> "empty-state", count |-> 0, titles |-> <<>>, cards |-> <<>>]
    ELSE [view |-> "articles", count |-> Len(items), titles |-> <<>>,
          cards |-> cleared.cards \o items]

\* loadAllFeeds of script.js from the end of its loop: sort, hide the
\* indicator, render.
script_Finish(c, urls, tasks) ==
    \E allItems \in SortOutcomes(script_AllItems(tasks)) :
        /\ loadingHidden' = TRUE
        /\ feedContainer' = script_renderFeed(allItems)
        /\ cycles' = [cycles EXCEPT ![c] = Cycle("done", urls, tasks)]

\* loadAllFeeds of script.js from its call to its first await, to its end
\* (no URL), or to the SyntaxError of getFeeds, which rejects the promise
\* it returned before anything is shown.
script_loadAllFeeds(c) ==
    LET urls == script_getFeeds IN
    /\ loadCount' = loadCount + 1
    /\ IF urls.kind = "throws"
       THEN /\ uncaught' = uncaught \cup {"loadAllFeeds"}
            /\ cycles' = [cycles EXCEPT ![c] = Cycle("threw", <<>>, <<>>)]
            /\ UNCHANGED <<loadingHidden, feedContainer>>
       ELSE /\ UNCHANGED uncaught
            /\ IF Len(urls.list) = 0
               THEN script_Finish(c, <<>>, <<>>)
               ELSE /\ loadingHidden' = FALSE
                    /\ feedContainer' = ClearContainer
                    /\ cycles' = [cycles EXCEPT
                          ![c] = Cycle("waiting", urls.list, script_StartFetches(urls.list))]

\* loadAllFeeds of script.js after call i has moved to t: the loop goes on,
\* and past the last URL the function comes to its end.
script_Continue(c, i, t) ==
    LET tasks == script_NextFetch(cycles[c].tasks, i, t) IN
    IF \A k \in 1..Len(tasks) : HasEnded(tasks[k])
    THEN script_Finish(c, cycles[c].urls, tasks)
    ELSE /\ cycles' = [cycles EXCEPT ![c].tasks = tasks]
         /\ UNCHANGED <<loadingHidden, feedContainer>>

\* DOMContentLoaded: the listener is loadAllFeeds.
script_init ==
    /\ page = "loading"
    /\ page' = "ready"
    /\ script_loadAllFeeds(FreeSlot)
    /\ UNCHANGED <<storeVars, timerVars, loadButtonDisabled, settingsVars, settingsOpen, messageBox>>

\* await fetch(proxyUrl) of call i settles with h.
script_FetchSettles(c, i, h) ==
    /\ cycles[c].tasks[i].pc = "fetching"
    /\ h \in Heads
    /\ script_Continue(c, i, script_OnHeaders(cycles[c].tasks[i], h))
    /\ UNCHANGED <<storeVars, timerVars, loadButtonDisabled, settingsVars, page, settingsOpen, messageBox,
                   loadCount, uncaught>>

\* await response.json() of call i settles with r.
script_BodySettles(c, i, r) ==
    /\ cycles[c].tasks[i].pc = "parsing"
    /\ r \in ResponseTable[cycles[c].tasks[i].url]
    /\ r.kind \in {"syntax", "json"}
    /\ script_Continue(c, i, script_OnResponse(cycles[c].tasks[i], r))
    /\ UNCHANGED <<storeVars, timerVars, loadButtonDisabled, settingsVars, page, settingsOpen, messageBox,
                   loadCount, uncaught>>

\* The timer of call i fires.
script_TimerFires(c, i) ==
    /\ cycles[c].tasks[i].pc = "backoff"
    /\ script_Continue(c, i, script_OnTimer(cycles[c].tasks[i]))
    /\ UNCHANGED <<storeVars, timerVars, loadButtonDisabled, settingsVars, page, settingsOpen, messageBox,
                   loadCount, uncaught>>

\* The settings button: renderFeedsList(), then settingsDialog.showModal();
\* the SyntaxError of getFeeds ends the listener before the dialog is shown.
script_openSettings ==
    /\ page = "ready"
    /\ ~settingsOpen
    /\ LET feeds == script_getFeeds IN
       IF feeds.kind = "throws"
       THEN /\ uncaught' = uncaught \cup {"renderFeedsList"}
            /\ UNCHANGED <<feedsList, settingsOpen>>
       ELSE /\ feedsList' = feeds.list
            /\ settingsOpen' = TRUE
            /\ UNCHANGED uncaught
    /\ UNCHANGED <<storeVars, timerVars, loadButtonDisabled, page, addFeedInput, loadingHidden, feedContainer,
                   messageBox, cycles, loadCount>>

\* addFeed of script.js: no message; the input stays for a duplicate.
script_addFeed ==
    /\ settingsOpen
    /\ LET url == StringOf(Trim(addFeedInput))
           feeds == script_getFeeds
       IN IF url = ""
          THEN UNCHANGED <<storeVars, settingsVars, uncaught>>
          ELSE IF feeds.kind = "throws"
          THEN /\ uncaught' = uncaught \cup {"addFeed"}
               /\ UNCHANGED <<storeVars, settingsVars>>
          ELSE IF Includes(feeds.list, url)
          THEN UNCHANGED <<storeVars, settingsVars, uncaught>>
          ELSE /\ saves < MaxSaves
               /\ saveFeeds(Append(feeds.list, url))
               /\ IF setItemThrows
                  \* saveFeeds of script.js lets the error of setItem through
                  THEN /\ uncaught' = uncaught \cup {"addFeed"}
                       /\ UNCHANGED settingsVars
                  ELSE /\ addFeedInput' = <<>>
                       /\ feedsList' = Append(feeds.list, url)
                       /\ UNCHANGED uncaught
    /\ UNCHANGED <<timerVars, loadButtonDisabled, page, settingsOpen, loadingHidden, feedContainer, messageBox,
                   cycles, loadCount>>

\* window.removeFeed(index), called by the button of entry index of the list
\* shown (index counted from 1 here).
script_removeFeed(index) ==
    /\ settingsOpen
    /\ index \in 1..Len(feedsList)
    /\ LET feeds == script_getFeeds IN
       IF feeds.kind = "throws"
       THEN /\ uncaught' = uncaught \cup {"removeFeed"}
            /\ UNCHANGED <<storeVars, feedsList>>
       ELSE /\ saves < MaxSaves
            /\ saveFeeds(Splice(feeds.list, index))
            /\ IF setItemThrows
               THEN /\ uncaught' = uncaught \cup {"removeFeed"}
                    /\ UNCHANGED feedsList
               ELSE /\ feedsList' = Splice(feeds.list, index)
                    /\ UNCHANGED uncaught
    /\ UNCHANGED <<timerVars, loadButtonDisabled, page, settingsOpen, addFeedInput, loadingHidden, feedContainer,
                   messageBox, cycles, loadCount>>

CopiedText == Text("Copied professional link to clipboard!", 0, 0, "")

\* showMessage(msg, type = 'success') of script.js: text, colour class,
\* 'hidden' removed; its new timeout is in hideTimers.
script_showMessage(msg, type) ==
    [text |-> msg, class |-> IF type = "success" THEN "green" ELSE "red",
     hidden |-> FALSE]

\* What a click on the share button of a card comes to: navigator.share took
\* the article; there is no navigator.share and the clipboard took the link;
\* or either promise was rejected.
ShareOutcomes == {"shared", "copied", "rejected"}

\* window.shareArticle(title, url), from the click on the share button of a
\* rendered card to its end: only the clipboard path shows a message, and
\* showMessage sets a timeout without clearing those set before. (Nothing
\* else of the model reads or writes the message while the promise of the
\* clipboard is pending.)
shareArticle(outcome) ==
    /\ feedContainer.view = "articles"
    /\ IF outcome = "copied"
       THEN /\ Len(hideTimers) < MaxTimers
            /\ messageBox' = script_showMessage(CopiedText, "success")
            /\ hideTimers' = Append(hideTimers, DISMISS)
            /\ shownFor' = 0
       ELSE UNCHANGED <<messageBox, timerVars>>
    /\ UNCHANGED <<storeVars, loadButtonDisabled, settingsVars, page, settingsOpen,
                   loadingHidden, feedContainer, cycles, loadCount, uncaught>>

\* One second passes; a timeout that is due runs first.
Tick ==
    /\ hideTimers # <<>>
    /\ \A k \in 1..Len(hideTimers) : hideTimers[k] > 0
    /\ hideTimers' = [k \in 1..Len(hideTimers) |-> hideTimers[k] - 1]
    /\ shownFor' = IF shownFor < DISMISS THEN shownFor + 1 ELSE shownFor
    /\ UNCHANGED <<storeVars, loadButtonDisabled, settingsVars, page, settingsOpen,
                   loadingHidden, feedContainer, messageBox, cycles, loadCount,
                   uncaught>>

\* The oldest timeout of showMessage is due:
\* () => messageBox.classList.add('hidden')
HideTimerFires ==
    /\ hideTimers # <<>>
    /\ Head(hideTimers) = 0
    /\ hideTimers' = Tail(hideTimers)
    /\ messageBox' = [messageBox EXCEPT !.hidden = TRUE]
    /\ UNCHANGED <<storeVars, loadButtonDisabled, settingsVars, page, settingsOpen,
                   loadingHidden, feedContainer, shownFor, cycles, loadCount,
                   uncaught>>

\* The proxy of FewResponses, which also sends its own error report and an
\* 'ok' without items.
ScriptResponses(u) ==
    FewResponses(u) \cup
    {[kind |-> "json", data |-> Data("error", FALSE, <<>>, FALSE, "")],
     [kind |-> "json", data |-> Data("ok", FALSE, <<>>, TRUE, "Tech News")]}

ScriptTable == [u \in Urls |-> ScriptResponses(u)]

InitScript ==
    /\ storage \in {Absent, Malformed("empty"), Malformed("text"),
                    Stored(<<>>), Stored(<<Verge>>)}
    /\ InitPage

NextScript ==
    \/ script_init
    \/ \E c \in Slots : \E i \in 1..Len(cycles[c].tasks) :
         \E h \in Heads : script_FetchSettles(c, i, h)
    \/ \E c \in Slots : \E i \in 1..Len(cycles[c].tasks) :
         \E r \in ScriptTable[cycles[c].tasks[i].url] : script_BodySettles(c, i, r)
    \/ \E c \in Slots : \E i \in 1..Len(cycles[c].tasks) : script_TimerFires(c, i)
    \/ script_openSettings
    \/ closeSettings
    \/ \E value \in InputValues : typeInput(value)
    \/ script_addFeed
    \/ \E index \in 1..Len(feedsList) : script_removeFeed(index)

\* The page under src/script.js: one page load, the load cycle it starts, and
\* the settings dialog.
SpecScript == InitScript /\ [][NextScript]_vars

InitShare ==
    /\ storage = Stored(<<Verge>>)
    /\ InitPage

NextShare ==
    \/ script_init
    \/ \E c \in Slots : \E i \in 1..Len(cycles[c].tasks) :
         \E h \in Heads : script_FetchSettles(c, i, h)
    \/ \E c \in Slots : \E i \in 1..Len(cycles[c].tasks) :
         \E r \in FewTable[cycles[c].tasks[i].url] : script_BodySettles(c, i, r)
    \/ \E c \in Slots : \E i \in 1..Len(cycles[c].tasks) : script_TimerFires(c, i)
    \/ \E outcome \in ShareOutcomes : shareArticle(outcome)
    \/ Tick
    \/ HideTimerFires

\* The page under src/script.js with one stored feed: once its articles are
\* rendered, the user shares articles, and time passes.
SpecShare == InitShare /\ [][NextShare]_vars

\* ================================================================== claims

\* The loadFeed calls of invocation c.
TasksOf(c) == {cycles[c].tasks[i] : i \in 1..Len(cycles[c].tasks)}

\* Every loadFeed call there is.
AllTasks == UNION {TasksOf(c) : c \in Slots}

\* Every request of t that has settled was a failed attempt (the catch block
\* ran for it): none succeeded and none was passed over.
OnlyFailures(t) ==
    t.requests = t.attempt + (IF t.pc \in {"fetching", "parsing"} THEN 1 ELSE 0)

ReturnedNull(t) == t.pc = "returned" /\ t.result = null

ReturnedData(t) == t.pc = "returned" /\ t.result # null

\* ------------------------------------------------------------------- C1
\* C1: a loadFeed call whose every attempt fails issues exactly 3 requests and
\* then returns null: it has issued at most 3 while it runs, it has issued 3
\* when it has returned null, and after the 3rd failure it has returned null.
C1_ThreeFailedAttempts ==
    \A t \in AllTasks :
        OnlyFailures(t) =>
            /\ t.requests <= 3
            /\ (ReturnedNull(t) => t.requests = 3 /\ t.attempt = 3)
            /\ (t.attempt >= 3 => ReturnedNull(t))
            /\ (t.pc = "returned" => t.result = null)

\* A call that has returned null after three failed requests.
C1_Witness ==
    \E t \in AllTasks : OnlyFailures(t) /\ ReturnedNull(t) /\ t.requests = 3

\* ------------------------------------------------------------------- C2
\* C2: one loadFeed call issues at most 3 proxy requests, whatever the
\* responses are.
C2_AtMostThreeRequests == \A t \in AllTasks : t.requests <= 3

Started(c) == cycles[c].pc # "idle" /\ Len(cycles[c].urls) > 0

Succeeded(c) == {i \in 1..Len(cycles[c].tasks) : ReturnedData(cycles[c].tasks[i])}

Failed(c) == {i \in 1..Len(cycles[c].tasks) : ReturnedNull(cycles[c].tasks[i])}

Pending(c) == {i \in 1..Len(cycles[c].tasks) : cycles[c].tasks[i].pc # "returned"}

\* How often x occurs in the sequence s.
Occurrences(s, x) == Cardinality({k \in 1..Len(s) : s[k] = x})

C5_RenderedAreSucceeded ==
    \A c \in Slots :
        (cycles[c].pc = "done" /\ Succeeded(c) # {}) =>
            LET cards == feedContainer.cards
                tasks == cycles[c].tasks
            IN /\ \A i \in Succeeded(c) : \A k \in 1..Len(tasks[i].result.items) :
                      Occurrences(cards, tasks[i].result.items[k]) = 1
               /\ \A j \in 1..Len(cards) :
                      \E i \in Succeeded(c) :
                          /\ cards[j].origin = tasks[i].url
                          /\ cards[j].n \in 1..Len(tasks[i].result.items)
                          /\ cards[j].feedTitle =
                               (IF tasks[i].result.title # ""
                                THEN tasks[i].result.title
                                ELSE Hostname(tasks[i].url))
                          /\ cards[j].feedTitle \notin {Undefined, ""}
               /\ \A j1, j2 \in 1..Len(cards) : cards[j1] = cards[j2] => j1 = j2

\* One feed failed, the other succeeded with two items, and both are rendered;
\* or both succeeded under different titles and three articles are rendered.
C5_Witness ==
    \E c \in Slots :
        /\ cycles[c].pc = "done"
        /\ \/ /\ Failed(c) # {} /\ Succeeded(c) # {}
              /\ Len(feedContainer.cards) = 2
           \/ /\ Succeeded(c) = {1, 2}
              /\ Len(feedContainer.cards) = 3
              /\ \E j1, j2 \in 1..3 :
                   feedContainer.cards[j1].feedTitle # feedContainer.cards[j2].feedTitle

\* ------------------------------------------------------------------- C6
\* C6: of two rendered articles with valid dates the later one comes first,
\* also when articles with a missing or unparsable date are among them.
C6_NewestFirst ==
    \A j1, j2 \in 1..Len(feedContainer.cards) :
        LET a == feedContainer.cards[j1]
            b == feedContainer.cards[j2]
        IN (/\ IsValidDate(a.pubDate) /\ IsValidDate(b.pubDate)
            /\ TimeValue(a.pubDate) > TimeValue(b.pubDate)) => j1 < j2

\* ------------------------------------------------------------------- C7
\* C7: while a loadFeed call of a load cycle is still pending (its request in
\* flight or its backoff running), the cycle has rendered nothing and shown
\* no message: the container is blank, the message box hidden, the indicator
\* visible, whatever its sibling calls have returned.
C7_JoinBeforeRender ==
    \A c \in Slots :
        Pending(c) # {} =>
            /\ cycles[c].pc = "waiting"
            /\ feedContainer = Blank
            /\ messageBox.hidden
            /\ ~loadingHidden

\* One call has returned (failed for good, or with data) while its sibling is
\* waiting in backoff, and nothing is rendered.
C7_Witness ==
    \E c \in Slots : \E i, j \in 1..Len(cycles[c].tasks) :
        /\ cycles[c].tasks[i].pc = "returned"
        /\ cycles[c].tasks[j].pc = "backoff"
        /\ feedContainer = Blank

\* ------------------------------------------------------------------- C8
\* C8: every URL's first request is issued before any loadFeed call settles
\* (from the start of the cycle every call has issued a request), and a call
\* waiting in backoff holds up no sibling: the sibling's request can settle
\* and the sibling's timer can fire while it waits.
C8_ConcurrentFetches ==
    \A c \in Slots :
        LET tasks == cycles[c].tasks IN
        /\ Started(c) => \A i \in 1..Len(tasks) : tasks[i].requests >= 1
        /\ \A i, j \in 1..Len(tasks) :
             (i # j /\ tasks[i].pc = "backoff") =>
                /\ tasks[j].pc = "fetching" =>
                     \A h \in Heads : ENABLED FetchSettles(c, j, h)
                /\ tasks[j].pc = "parsing" =>
                     \A r \in RecognisedTable[tasks[j].url] :
                        r.kind \in {"syntax", "json"} => ENABLED BodySettles(c, j, r)
                /\ tasks[j].pc = "backoff" => ENABLED TimerFires(c, j)

\* The failing feed is in its first backoff (2 s) and the sibling has already
\* returned data from its first request.
C8_Witness ==
    \E c \in Slots : \E i, j \in 1..Len(cycles[c].tasks) :
        /\ cycles[c].tasks[i].pc = "backoff"
        /\ cycles[c].tasks[i].attempt = 1
        /\ ReturnedData(cycles[c].tasks[j])
        /\ cycles[c].tasks[j].requests = 1

\* ------------------------------------------------------------------- C9
\* C9: an invocation of loadAllFeeds that finds the list empty issues no
\* request (it starts no loadFeed call and no call of another invocation
\* moves), shows the warning, leaves the container blank and does not touch
\* the loading indicator.
C9_EmptyList ==
    [][\A c \in Slots :
        (cycles[c].pc # "done" /\ cycles'[c].pc = "done" /\ Len(cycles'[c].urls) = 0) =>
            /\ cycles'[c].tasks = <<>>
            /\ \A d \in Slots \ {c} : cycles'[d] = cycles[d]
            /\ messageBox' = [text |-> NoFeedsText, class |-> "yellow", hidden |-> FALSE]
            /\ feedContainer' = Blank
            /\ loadingHidden' = loadingHidden]_vars

\* loadAllFeeds has returned on an empty list with the warning up, and the
\* indicator, hidden before, is still hidden.
C9_Witness ==
    \E c \in Slots :
        /\ cycles[c].pc = "done"
        /\ cycles[c].urls = <<>>
        /\ messageBox.text = NoFeedsText
        /\ loadingHidden

\* ------------------------------------------------------------------ C10
\* C10: after a cycle in which k >= 1 feeds succeeded the message is the
\* success message with feed count k and an article count equal to the number
\* of articles rendered; after one in which none succeeded it is the error
\* message.
C10_MessageCounts ==
    \A c \in Slots :
        (cycles[c].pc = "done" /\ Len(cycles[c].urls) > 0) =>
            LET k == Cardinality(Succeeded(c)) IN
            /\ ~messageBox.hidden
            /\ IF k >= 1
               THEN /\ messageBox.class = "green"
                    /\ messageBox.text = LoadedText(k, Len(feedContainer.cards))
               ELSE /\ messageBox.class = "red"
                    /\ messageBox.text = FailedText

\* Two feeds requested, one failed for good, one succeeded with two items:
\* '1 feed(s)' and '2 total articles'.
C10_Witness ==
    \E c \in Slots :
        /\ cycles[c].pc = "done"
        /\ Len(cycles[c].urls) = 2
        /\ Cardinality(Failed(c)) = 1
        /\ messageBox.class = "green"
        /\ messageBox.text.feeds = 1
        /\ messageBox.text.articles = 2
        /\ Len(feedContainer.cards) = 2

\* ------------------------------------------------------------------ C11
\* The list that getFeeds hands to addFeed as an array: the stored one, or the
\* defaults when nothing usable is stored.
ListInUse ==
    IF storage.kind = "array" THEN storage.list
    ELSE IF storage.kind \in {"absent", "empty", "text"} THEN defaultFeeds
    ELSE <<>>

\* C11: addFeed with a URL that, trimmed, is already in the list changes
\* nothing of the store: the stored list is the same (contents, order and
\* length), nothing is written, and the warning 'Feed URL already exists.' is
\* shown.
C11_DuplicateIsNoOp ==
    [][(/\ addFeed
        /\ \E k \in 1..Len(ListInUse) : ListInUse[k] = StringOf(Trim(addFeedInput)))
       => /\ storage' = storage
          /\ defaultFeeds' = defaultFeeds
          /\ saves' = saves
          /\ messageBox' = [text |-> ExistsText, class |-> "yellow", hidden |-> FALSE]]_vars

\* The warning is up after the one stored URL was typed again, with white
\* space around it, and the stored list is as it was.
C11_Witness ==
    /\ messageBox.text = ExistsText
    /\ storage = Stored(<<Verge>>)
    /\ saves = 0

\* ------------------------------------------------------------------ C12
\* C12: whenever the storage key holds anything but a JSON array (nothing, the
\* empty string, text that is no JSON, or the JSON text of null, a number, a
\* string or an object), the load cycle that init starts fetches the two
\* default URLs and nothing is thrown.
C12_MalformedFallsBack ==
    (page = "ready" /\ storage.kind # "array") =>
        /\ uncaught = {}
        /\ \E c \in Slots :
             /\ cycles[c].pc \in {"waiting", "done"}
             /\ cycles[c].urls = DEFAULT_FEEDS
             /\ \A i \in 1..2 : cycles[c].tasks[i].requests >= 1

\* ------------------------------------------------------------------ C13
\* The articles of the feeds that succeeded in invocation c: feed and place.
ArticlesOf(c) ==
    {ik \in Succeeded(c) \X (1..(MaxItems + 1)) :
        ik[2] <= Len(cycles[c].tasks[ik[1]].result.items)}

\* C13: when a load cycle has finished and none is in flight, the container
\* holds what that cycle loaded and nothing else: it is blank for an empty
\* list; it is the empty state, without summary or card, when no article was
\* loaded; otherwise it is one summary and exactly the articles of the feeds
\* that succeeded in this cycle, each once, whatever was rendered before.
C13_ReloadReplaces ==
    \A c \in Slots :
        (cycles[c].pc = "done" /\ \A d \in Slots : cycles[d].pc # "waiting") =>
            LET tasks == cycles[c].tasks
                cards == feedContainer.cards
            IN IF cycles[c].urls = <<>> THEN feedContainer = Blank
               ELSE IF ArticlesOf(c) = {}
               THEN feedContainer =
                      [view |-> "empty-state", count |-> 0, titles |-> <<>>, cards |-> <<>>]
               ELSE /\ feedContainer.view = "articles"
                    /\ feedContainer.count = Cardinality(ArticlesOf(c))
                    /\ Len(feedContainer.titles) = Cardinality(Succeeded(c))
                    /\ Len(cards) = Cardinality(ArticlesOf(c))
                    /\ \A ik \in ArticlesOf(c) :
                          Occurrences(cards, tasks[ik[1]].result.items[ik[2]]) = 1

\* The second load cycle of the visit has finished: it was started after
\* Engadget was removed from the list, whose first cycle had finished before,
\* and it rendered the one article of the feed that is left.
C13_Witness ==
    /\ loadCount = 2
    /\ saves = 1
    /\ cycles[1].pc = "done"
    /\ cycles[1].urls = <<Verge>>
    /\ Len(feedContainer.cards) = 1

\* ------------------------------------------------------------------ C14
\* The place in the URL list of the feed that a rendered article came from.
FeedIndex(c, card) ==
    CHOOSE i \in 1..Len(cycles[c].urls) : cycles[c].urls[i] = card.origin

\* The j-th of the feeds of invocation c that succeeded, in the order of the
\* URL list.
NthSucceeded(c, j) ==
    CHOOSE i \in Succeeded(c) : Cardinality({k \in Succeeded(c) : k <= i}) = j

\* C14: the source titles handed to renderFeed are those of the feeds that
\* succeeded, in the order of the URL list; and so is the merged sequence: of
\* two rendered articles with the same (valid) time, which the stable sort
\* leaves as they were merged, the one of the earlier URL comes first, and of
\* two of one feed the one the proxy listed first. How many attempts a feed
\* took, and so when it settled, does not matter.
C14_InputOrder ==
    \A c \in Slots :
        (cycles[c].pc = "done" /\ feedContainer.view = "articles") =>
            LET cards == feedContainer.cards
                titles == feedContainer.titles
            IN /\ Len(titles) = Cardinality(Succeeded(c))
               /\ \A j \in 1..Len(titles) :
                     titles[j] =
                        (LET title == cycles[c].tasks[NthSucceeded(c, j)].result.title
                         IN IF title = "" THEN "Unknown Feed" ELSE title)
               /\ (\A j \in 1..Len(cards) : IsValidDate(cards[j].pubDate)) =>
                     \A j1, j2 \in 1..Len(cards) :
                        (j1 < j2 /\ cards[j1].pubDate = cards[j2].pubDate) =>
                            \/ FeedIndex(c, cards[j1]) < FeedIndex(c, cards[j2])
                            \/ /\ FeedIndex(c, cards[j1]) = FeedIndex(c, cards[j2])
                               /\ cards[j1].n < cards[j2].n

\* The first feed of the list succeeded at its third attempt, after 6 s of
\* backoff, the second at its first; the titles and two articles of the same
\* time are in the order of the list all the same.
C14_Witness ==
    \E c \in Slots :
        /\ cycles[c].pc = "done"
        /\ Succeeded(c) = {1, 2}
        /\ cycles[c].tasks[1].delays = <<2000, 4000>>
        /\ cycles[c].tasks[2].requests = 1
        /\ feedContainer.titles = <<"Unknown Feed", "Tech News">>
        /\ Len(feedContainer.cards) = 2
        /\ feedContainer.cards[1].origin = cycles[c].urls[1]
        /\ feedContainer.cards[2].origin = cycles[c].urls[2]
        /\ feedContainer.cards[1].pubDate = feedContainer.cards[2].pubDate

\* ------------------------------------------------------------------ C15
\* C15: while a loadFeed call of a load cycle is pending, no step changes the
\* container, the message box or the stored list.
C15_NoWritesInFlight ==
    [][(\E c \in Slots : Pending(c) # {}) =>
          /\ feedContainer' = feedContainer
          /\ messageBox' = messageBox
          /\ storage' = storage]_vars

C17_ScriptBackoff ==
    \A t \in AllTasks :
        /\ Len(t.delays) <= 2
        /\ (Len(t.delays) >= 1 => t.delays[1] = 2000)
        /\ (Len(t.delays) >= 2 => t.delays[2] = 4000)
        /\ (t.pc = "threw" => t.requests = 3 /\ Len(t.delays) = 2)

\* ------------------------------------------------------------------ C18
\* C18: loadAllFeeds of src/script.js fetches the feeds at the same time:
\* while it is at work, the first request of every URL has been issued,
\* whether or not the call for the URL before has come to its end.
C18_ScriptConcurrent ==
    \A c \in Slots :
        cycles[c].pc = "waiting" =>
            \A i \in 1..Len(cycles[c].tasks) : cycles[c].tasks[i].requests >= 1

\* ------------------------------------------------------------------ C19
\* C19: in src/script.js, with nothing stored or with stored text that is no
\* JSON, no function ends in an exception, and the load cycle of the page
\* load is over the two default URLs.
C19_ScriptCorruptStorage ==
    (page = "ready" /\ storage.kind \in {"absent", "text"}) =>
        /\ uncaught = {}
        /\ \E c \in Slots :
             cycles[c].pc \in {"waiting", "done"} /\ cycles[c].urls = DEFAULT_FEEDS

\* ------------------------------------------------------------------ C20
\* C20: when every request settles and every timer fires, a load cycle of
\* part_002 over a list that is not empty comes to its end, whatever the proxy
\* answers: the indicator is hidden again and the cycle has rendered.
C20_LoadCycleEnds ==
    \A c \in Slots :
        (cycles[c].pc = "waiting") ~> (cycles[c].pc = "done" /\ loadingHidden)

\* ------------------------------------------------------------------ C21
\* C21: removeFeed(index) of part_002 with an index inside the current list
\* persists that list without the entry at index: one entry fewer, the
\* entries before index in place, the entries after it moved up by one,
\* and getFeeds then returns this list.
C21_RemoveFeedPersists ==
    [][\A index \in 1..Len(feedsList) :
         (/\ removeFeed(index)
          /\ getFeeds.kind = "array"
          /\ index <= Len(getFeeds.list))
         => LET old == getFeeds.list
                new == storage'.list
            IN /\ storage'.kind = "array"
               /\ Len(new) = Len(old) - 1
               /\ \A k \in 1..Len(new) :
                    new[k] = (IF k < index THEN old[k] ELSE old[k + 1])
               /\ getFeeds' = Value("array", new)]_vars

\* The first of the two default feeds has been removed.
C21_Witness ==
    /\ messageBox.text = RemovedText(Verge)
    /\ storage = Stored(<<Engadget>>)

\* ------------------------------------------------------------------ C22
\* C22: no operation changes the hard-coded default list: whenever getFeeds
\* takes its fallback path, whether storage writes succeed or fail, it
\* returns the two default URLs in their order.
C22_DefaultsNeverChange ==
    ReadsDefaults => getFeeds = Value("array", DEFAULT_FEEDS)

\* ------------------------------------------------------------------ C23
\* The container and the message are those that invocation c leaves.
ShowsResultOf(c) ==
    LET tasks == cycles[c].tasks
        cards == feedContainer.cards
    IN IF cycles[c].urls = <<>>
       THEN feedContainer = Blank /\ messageBox.text = NoFeedsText
       ELSE IF Succeeded(c) = {}
       THEN feedContainer.view = "empty-state" /\ messageBox.text = FailedText
       ELSE /\ feedContainer.view = "articles"
            /\ Len(cards) = Cardinality(ArticlesOf(c))
            /\ \A ik \in ArticlesOf(c) :
                  Occurrences(cards, tasks[ik[1]].result.items[ik[2]]) = 1
            /\ messageBox.text =
                  LoadedText(Cardinality(Succeeded(c)), Cardinality(ArticlesOf(c)))

\* C23: when the load button was clicked while the automatic load cycle was
\* in flight (the second invocation took the second place), and both
\* invocations have finished, the page shows the articles and the message of
\* the second, the one started last, whichever finished last.
C23_LastStartedWins ==
    (loadCount = 2 /\ cycles[1].pc = "done" /\ cycles[2].pc = "done")
        => ShowsResultOf(2)

\* ------------------------------------------------------------------ C24
\* C24: the loading indicator is visible whenever an invocation of
\* loadAllFeeds has started its fetches and has not yet rendered, also when
\* invocations overlap.
C24_IndicatorWhileInFlight ==
    (\E c \in Slots : cycles[c].pc = "waiting") => ~loadingHidden

\* ------------------------------------------------------------------ C25
\* The ways to spell a string of the model in characters: as typed, as
\* trimmed, or as one URL.
Spellings ==
    InputValues \cup {Trim(v) : v \in InputValues} \cup {<<u>> : u \in Urls} \cup {<<>>}

\* url is empty or consists of whitespace.
IsBlank(url) ==
    \E v \in Spellings : StringOf(v) = url /\ \A k \in 1..Len(v) : v[k] = Space

\* url begins or ends with whitespace.
HasOuterSpace(url) ==
    \E v \in Spellings :
        StringOf(v) = url /\ v # <<>> /\ (v[1] = Space \/ v[Len(v)] = Space)

\* C25: from absent storage or a stored list without duplicates and blanks,
\* whatever is added and removed, the persisted list has no URL twice, no
\* URL that is empty or whitespace, and no URL with whitespace at either end.
C25_StoredListIsClean ==
    storage.kind = "array" =>
        LET list == storage.list IN
        /\ \A j, k \in 1..Len(list) : list[j] = list[k] => j = k
        /\ \A k \in 1..Len(list) : ~IsBlank(list[k]) /\ ~HasOuterSpace(list[k])

\* A URL typed with a space after it has been added to the stored default
\* list.
C25_Witness ==
    /\ storage = Stored(<<Verge, Engadget, NewFeed>>)
    /\ messageBox.text = AddedText(NewFeed)

\* ------------------------------------------------------------------ C26
\* C26: a message shown by showMessage of src/script.js stays visible for
\* the 5 seconds after it was shown, also when an earlier message's timeout
\* was still pending when it was shown.
C26_VisibleForFullDelay ==
    shownFor < DISMISS => ~messageBox.hidden

\* ------------------------------------------------------------------ C27
\* C27: in part_001 at most one load cycle is in flight at any time: the load
\* button is disabled exactly while an invocation of loadAllFeeds waits for
\* its fetches, and no invocation starts while the button is disabled or
\* another is in flight.
C27_OneLoadCycleAtATime ==
    [][/\ Cardinality({c \in Slots : cycles[c].pc = "waiting"}) <= 1
       /\ loadButtonDisabled <=> (\E c \in Slots : cycles[c].pc = "waiting")
       /\ (loadCount' # loadCount =>
             ~loadButtonDisabled /\ \A c \in Slots : cycles[c].pc # "waiting")]_vars

\* The second load cycle of the visit is in flight: the button was clicked
\* after the automatic invocation had finished, and is disabled again.
C27_Witness ==
    /\ loadCount = 2
    /\ loadButtonDisabled
    /\ cycles[1].pc = "waiting"
    /\ cycles[1].tasks[1].requests >= 1

====
